---------------------------- MODULE Spec2Model ----------------------------
(***************************************************************************)
(* Model of src/backtransliterator.py: class BackTransliterator, which     *)
(* back-transliterates a romanized word to its possible Cyrillic           *)
(* spellings (_list_all), ranks them (predict_proba, predict) and learns   *)
(* the ranking from a word list (fit).                                     *)
(*                                                                         *)
(* Representation.  A Latin word is a sequence of one-character strings;   *)
(* a romanization unit is a string ("sh", "ya"; the placeholder is "eps"). *)
(* A Cyrillic letter is its Unicode code point, so that Python's string    *)
(* order is the order of the numbers; a rendering and a restored word are  *)
(* sequences of code points.  A probability is a pair <<n, d>> standing    *)
(* for n/d, compared by cross-multiplication.                              *)
(***************************************************************************)
EXTENDS Integers, Sequences, FiniteSets, TLC

VARIABLES
    probs,       \* self.probs: [none |-> TRUE] or [none |-> FALSE, table |-> pv :> <<n, d>>]
    count,       \* fit's local `count`: context -> number of occurrences
    pc,          \* "start"/"done" for one call of _list_all; "idle"/"fit" for the object
    word,        \* the Latin word the caller passes
    splitted,    \* `splitted` of the last _list_all
    res,         \* `res` of the last _list_all: the surviving candidates
    pp,          \* the list the last predict_proba built and returned
    ret,         \* the value the last public call returned to its caller
    raised,      \* the exception the last call raised, "none" if it returned
    op,          \* the last call made
    nwords,      \* number of corpus words the running fit has consumed
    normalized   \* whether the table in probs went through fit's normalization

vars == <<probs, count, pc, word, splitted, res, pp, ret, raised, op, nwords, normalized>>

(***************************************************************************)
(* Bounds.                                                                 *)
(***************************************************************************)
MaxUnits == 2        \* pieces in a word handed to _list_all (SpecListAll)
MaxCorpus == 3       \* words one call of fit consumes (Spec)

(***************************************************************************)
(* The Cyrillic alphabet, by code point.                                   *)
(*   j = й   yy = ы   eh = э   hard = ъ   soft = ь   yo = ё (U+0451)       *)
(***************************************************************************)
Cyr ==
    [a |-> 1072, b |-> 1073, v |-> 1074, g |-> 1075, d |-> 1076, e |-> 1077,
     zh |-> 1078, z |-> 1079, i |-> 1080, j |-> 1081, k |-> 1082, l |-> 1083,
     m |-> 1084, n |-> 1085, o |-> 1086, p |-> 1087, r |-> 1088, s |-> 1089,
     t |-> 1090, u |-> 1091, f |-> 1092, kh |-> 1093, ts |-> 1094, ch |-> 1095,
     sh |-> 1096, shch |-> 1097, hard |-> 1098, yy |-> 1099, soft |-> 1100,
     eh |-> 1101, yu |-> 1102, ya |-> 1103, yo |-> 1105]

eng2rus_dict ==
    [a |-> << <<Cyr.a>> >>,
     b |-> << <<Cyr.b>> >>,
     ch |-> << <<Cyr.ch>> >>,
     d |-> << <<Cyr.d>> >>,
     e |-> << <<Cyr.e>>, <<Cyr.eh>> >>,
     f |-> << <<Cyr.f>> >>,
     g |-> << <<Cyr.g>> >>,
     i |-> << <<Cyr.i>> >>,
     k |-> << <<Cyr.k>> >>,
     kh |-> << <<Cyr.kh>> >>,
     l |-> << <<Cyr.l>> >>,
     m |-> << <<Cyr.m>> >>,
     n |-> << <<Cyr.n>> >>,
     o |-> << <<Cyr.o>> >>,
     p |-> << <<Cyr.p>> >>,
     r |-> << <<Cyr.r>> >>,
     s |-> << <<Cyr.s>> >>,
     sh |-> << <<Cyr.sh>> >>,
     shch |-> << <<Cyr.shch>>, <<Cyr.sh, Cyr.ch>> >>,
     t |-> << <<Cyr.t>> >>,
     ts |-> << <<Cyr.ts>>, <<Cyr.t, Cyr.s>>, <<Cyr.t, Cyr.soft, Cyr.s>> >>,
     u |-> << <<Cyr.u>> >>,
     v |-> << <<Cyr.v>> >>,
     y |-> << <<Cyr.j>>, <<Cyr.yy>>, <<Cyr.yy, Cyr.j>>, <<Cyr.i, Cyr.j>> >>,
     ya |-> << <<Cyr.ya>>, <<Cyr.soft, Cyr.ya>>, <<Cyr.hard, Cyr.ya>>,
               <<Cyr.j, Cyr.a>>, <<Cyr.soft, Cyr.a>> >>,
     ye |-> << <<Cyr.e>>, <<Cyr.soft, Cyr.e>>, <<Cyr.j, Cyr.e>>,
               <<Cyr.hard, Cyr.e>>, <<Cyr.yy, Cyr.e>>, <<Cyr.soft, Cyr.eh>> >>,
     yi |-> << <<Cyr.soft, Cyr.i>>, <<Cyr.yy, Cyr.i>>, <<Cyr.j, Cyr.i>>,
               <<Cyr.hard, Cyr.i>> >>,
     yo |-> << <<Cyr.yo>>, <<Cyr.soft, Cyr.yo>>, <<Cyr.hard, Cyr.yo>>,
               <<Cyr.j, Cyr.o>>, <<Cyr.soft, Cyr.o>>, <<Cyr.yy, Cyr.o>> >>,
     yu |-> << <<Cyr.yu>>, <<Cyr.soft, Cyr.yu>>, <<Cyr.hard, Cyr.yu>>,
               <<Cyr.j, Cyr.u>>, <<Cyr.soft, Cyr.u>>, <<Cyr.yy, Cyr.u>> >>,
     z |-> << <<Cyr.z>> >>,
     zh |-> << <<Cyr.zh>> >>,
     eps |-> << <<>>, <<Cyr.soft>> >>]

\* self.single_elements: the units with exactly one rendering.
single_elements == {k \in DOMAIN eng2rus_dict : Len(eng2rus_dict[k]) = 1}

\* The sets a, b, c of __init__ and the product self.ab.
a_units == {"d", "z", "l", "m", "n", "r", "s", "t", "ch"}
b_units == {"b", "g", "k", "l", "m", "s", "v", "d", "zh", "z", "n", "p", "r", "t",
            "f", "kh", "ts", "ch", "sh", "shch"}
ab == a_units \X b_units
c_units_without_m == {"b", "v", "d", "zh", "z", "l", "n", "p", "r", "s", "t", "f",
                      "ch", "sh", "shch"}

c_units == {"b", "v", "d", "zh", "z", "l", "m", "n", "p", "r", "s", "t", "f",
            "ch", "sh", "shch"}

vowels == {Cyr.yo, Cyr.u, Cyr.e, Cyr.yy, Cyr.a, Cyr.o, Cyr.eh, Cyr.ya, Cyr.i, Cyr.yu}
consonants == {Cyr.ts, Cyr.k, Cyr.n, Cyr.g, Cyr.sh, Cyr.shch, Cyr.z, Cyr.kh, Cyr.f,
               Cyr.v, Cyr.p, Cyr.r, Cyr.l, Cyr.d, Cyr.zh, Cyr.ch, Cyr.s, Cyr.m,
               Cyr.t, Cyr.b}

(***************************************************************************)
(* The tokenizer: self.eng_split, compiled with re.IGNORECASE, and its     *)
(* findall.  The pattern is                                                *)
(*   shch|[cskz]h|y[aoeui]|y|[aoeiu]|ts(?!h)|[skz](?!h)|[ngfvprldmtb]      *)
(***************************************************************************)
UpperToLower ==
    [A |-> "a", B |-> "b", C |-> "c", D |-> "d", E |-> "e", F |-> "f", G |-> "g",
     H |-> "h", I |-> "i", K |-> "k", L |-> "l", M |-> "m", N |-> "n", O |-> "o",
     P |-> "p", R |-> "r", S |-> "s", T |-> "t", U |-> "u", V |-> "v", Y |-> "y",
     Z |-> "z"]

\* Case folding as IGNORECASE applies it when a character is compared.
Lower(ch) == IF ch \in DOMAIN UpperToLower THEN UpperToLower[ch] ELSE ch

\* The folded character at 1-based position i, "" past the end of the word.
ChAt(w, i) == IF i <= Len(w) THEN Lower(w[i]) ELSE ""

\* The pattern with `ts` in place of `ts(?!h)`.
eng_split_match_ts_greedy(w, i) ==
    IF ChAt(w, i) = "s" /\ ChAt(w, i+1) = "h" /\ ChAt(w, i+2) = "c" /\ ChAt(w, i+3) = "h"
      THEN 4
    ELSE IF ChAt(w, i) \in {"c", "s", "k", "z"} /\ ChAt(w, i+1) = "h" THEN 2
    ELSE IF ChAt(w, i) = "y" /\ ChAt(w, i+1) \in {"a", "o", "e", "u", "i"} THEN 2
    ELSE IF ChAt(w, i) = "y" THEN 1
    ELSE IF ChAt(w, i) \in {"a", "o", "e", "i", "u"} THEN 1
    ELSE IF ChAt(w, i) = "t" /\ ChAt(w, i+1) = "s" THEN 2
    ELSE IF ChAt(w, i) \in {"s", "k", "z"} /\ ChAt(w, i+1) # "h" THEN 1
    ELSE IF ChAt(w, i) \in {"n", "g", "f", "v", "p", "r", "l", "d", "m", "t", "b"} THEN 1
    ELSE 0

\* Length of the match of the pattern at position i (its alternatives tried
\* in order, the first that matches wins), 0 if none matches there.
eng_split_match(w, i) ==
    IF ChAt(w, i) = "s" /\ ChAt(w, i+1) = "h" /\ ChAt(w, i+2) = "c" /\ ChAt(w, i+3) = "h"
      THEN 4
    ELSE IF ChAt(w, i) \in {"c", "s", "k", "z"} /\ ChAt(w, i+1) = "h" THEN 2
    ELSE IF ChAt(w, i) = "y" /\ ChAt(w, i+1) \in {"a", "o", "e", "u", "i"} THEN 2
    ELSE IF ChAt(w, i) = "y" THEN 1
    ELSE IF ChAt(w, i) \in {"a", "o", "e", "i", "u"} THEN 1
    ELSE IF ChAt(w, i) = "t" /\ ChAt(w, i+1) = "s" /\ ChAt(w, i+2) # "h" THEN 2
    ELSE IF ChAt(w, i) \in {"s", "k", "z"} /\ ChAt(w, i+1) # "h" THEN 1
    ELSE IF ChAt(w, i) \in {"n", "g", "f", "v", "p", "r", "l", "d", "m", "t", "b"} THEN 1
    ELSE 0

\* The string made of the characters of cs: the matched text, case kept.
RECURSIVE Tok(_)
Tok(cs) == IF cs = <<>> THEN "" ELSE cs[1] \o Tok(Tail(cs))

\* findall from position i: a match is emitted and skipped, a character no
\* alternative matches is skipped alone.
RECURSIVE FindAllFrom(_, _)
FindAllFrom(w, i) ==
    IF i > Len(w) THEN <<>>
    ELSE LET n == eng_split_match(w, i) IN
         IF n = 0 THEN FindAllFrom(w, i + 1)
         ELSE <<Tok(SubSeq(w, i, i + n - 1))>> \o FindAllFrom(w, i + n)

eng_split_findall(w) == FindAllFrom(w, 1)


(***************************************************************************)
(* _list_all, first half: the positions where a soft sign may have been    *)
(* dropped, and the insertion of the placeholder unit there.               *)
(***************************************************************************)
\* possible_eps: Python positions i (0-based) with (splitted[i-1], splitted[i])
\* in self.ab, then len(splitted) if the last unit is in self.c.
possible_eps(s) ==
    SelectSeq([i \in 1..(Len(s) - 1) |-> i], LAMBDA i : <<s[i], s[i + 1]>> \in ab)
    \o (IF s[Len(s)] \in c_units THEN <<Len(s)>> ELSE <<>>)

\* list.insert(idx, x): x goes before the element at 0-based index idx, at
\* the end when idx is not smaller than the length.
list_insert(s, idx, x) ==
    IF idx >= Len(s) THEN Append(s, x)
    ELSE SubSeq(s, 1, idx) \o <<x>> \o SubSeq(s, idx + 1, Len(s))

insert_position_noshift(pos, shift) == pos

\* The index `pos + shift` of the insertion.
insert_position(pos, shift) == pos + shift

\* for shift, pos in enumerate(possible_eps): splitted.insert(pos + shift, 'eps')
RECURSIVE insert_eps(_, _, _)
insert_eps(s, eps, shift) ==
    IF shift = Len(eps) THEN s
    ELSE insert_eps(list_insert(s, insert_position(eps[shift + 1], shift), "eps"),
                    eps, shift + 1)

(***************************************************************************)
(* _list_all, second half: itertools.product of the renderings of the      *)
(* units, and the filter.  A rule answers "pass", "break" (the candidate   *)
(* is dropped) or "IndexError" (it indexed an empty rendering); `and` is   *)
(* evaluated left to right and stops at the first false operand.  i is the *)
(* Python index, 0-based; L is len(splitted).                              *)
(***************************************************************************)
\* Every element of h before every tuple of rest, h outermost.
prepend_each(h, rest) ==
    [k \in 1..(Len(h) * Len(rest)) |->
        <<h[((k - 1) \div Len(rest)) + 1]>> \o rest[((k - 1) % Len(rest)) + 1]]

\* itertools.product(*lists): the last list varies fastest.
RECURSIVE product(_)
product(lists) ==
    IF lists = <<>> THEN << <<>> >> ELSE prepend_each(Head(lists), product(Tail(lists)))

\* variant[i] and variant[i-1]; Python's index -1 is the last element.
py_at(variant, i) == variant[i + 1]
py_prev(variant, i) == variant[IF i = 0 THEN Len(variant) ELSE i]

rule_sign_first_hard_only(variant, i) ==
    LET c == py_at(variant, i) IN
    IF i # 0 THEN "pass"
    ELSE IF c = <<>> THEN "IndexError"
    ELSE IF c[1] \in {Cyr.hard} THEN "break" ELSE "pass"

\* if i == 0 and c[0] in 'ъь'
rule_sign_first(variant, i) ==
    LET c == py_at(variant, i) IN
    IF i # 0 THEN "pass"
    ELSE IF c = <<>> THEN "IndexError"
    ELSE IF c[1] \in {Cyr.hard, Cyr.soft} THEN "break" ELSE "pass"

rule_sign_after_vowel_noguard(variant, i) ==
    LET c == py_at(variant, i)
        prev == py_prev(variant, i)
    IN IF ~(i > 0) THEN "pass"
       ELSE IF c = <<>> THEN "IndexError"
       ELSE IF c[1] \notin {Cyr.soft, Cyr.hard, Cyr.yy} THEN "pass"
       ELSE IF prev = <<>> THEN "IndexError"
       ELSE IF prev[Len(prev)] \in vowels THEN "break" ELSE "pass"

\* if i > 0 and c != '' and c[0] in 'ьъы' and variant[i-1][-1] in vowels
rule_sign_after_vowel(variant, i) ==
    LET c == py_at(variant, i)
        prev == py_prev(variant, i)
    IN IF ~(i > 0 /\ c # <<>>) THEN "pass"
       ELSE IF c[1] \notin {Cyr.soft, Cyr.hard, Cyr.yy} THEN "pass"
       ELSE IF prev = <<>> THEN "IndexError"
       ELSE IF prev[Len(prev)] \in vowels THEN "break" ELSE "pass"

\* if i > 0 and c == 'й' and variant[i-1][-1] in consonants
rule_j_after_consonant(variant, i) ==
    LET c == py_at(variant, i)
        prev == py_prev(variant, i)
    IN IF ~(i > 0 /\ c = <<Cyr.j>>) THEN "pass"
       ELSE IF prev = <<>> THEN "IndexError"
       ELSE IF prev[Len(prev)] \in consonants THEN "break" ELSE "pass"

\* if i == L - 1 and c != '' and c[0] == 'й' and variant[i-1][-1] in consonants
rule_j_initial_last(variant, i) ==
    LET c == py_at(variant, i)
        prev == py_prev(variant, i)
    IN IF ~(i = Len(variant) - 1 /\ c # <<>>) THEN "pass"
       ELSE IF c[1] # Cyr.j THEN "pass"
       ELSE IF prev = <<>> THEN "IndexError"
       ELSE IF prev[Len(prev)] \in consonants THEN "break" ELSE "pass"

\* if i == 0 and c == 'й'
rule_j_first(variant, i) ==
    IF i = 0 /\ py_at(variant, i) = <<Cyr.j>> THEN "break" ELSE "pass"

\* if (c == 'ий' or c == 'ый') and i != L - 1
rule_iy_not_last(variant, i) ==
    LET c == py_at(variant, i) IN
    IF (c = <<Cyr.i, Cyr.j>> \/ c = <<Cyr.yy, Cyr.j>>) /\ i # Len(variant) - 1
      THEN "break" ELSE "pass"

\* if c == 'е' and splitted[i] == 'ye' and i > 0 and i < L-1 and
\*    (variant[i-1][-1] in consonants and variant[i+1][0] in consonants)
rule_ye_between(variant, s, i) ==
    LET c == py_at(variant, i)
        prev == py_prev(variant, i)
    IN IF ~(c = <<Cyr.e>> /\ s[i + 1] = "ye" /\ i > 0 /\ i < Len(variant) - 1)
         THEN "pass"
       ELSE IF prev = <<>> THEN "IndexError"
       ELSE IF prev[Len(prev)] \notin consonants THEN "pass"
       ELSE IF py_at(variant, i + 1) = <<>> THEN "IndexError"
       ELSE IF py_at(variant, i + 1)[1] \in consonants THEN "break" ELSE "pass"

\* if i == L - 1 and c == 'е' and splitted[i] == 'ye' and variant[i-1][-1] in consonants
rule_ye_last(variant, s, i) ==
    LET c == py_at(variant, i)
        prev == py_prev(variant, i)
    IN IF ~(i = Len(variant) - 1 /\ c = <<Cyr.e>> /\ s[i + 1] = "ye") THEN "pass"
       ELSE IF prev = <<>> THEN "IndexError"
       ELSE IF prev[Len(prev)] \in consonants THEN "break" ELSE "pass"

\* The first answer of rs, in order, that is not "pass"; "pass" if all are.
RECURSIVE first_decisive(_)
first_decisive(rs) ==
    IF rs = <<>> THEN "pass"
    ELSE IF Head(rs) # "pass" THEN Head(rs)
    ELSE first_decisive(Tail(rs))

\* The body of `for i, c in enumerate(variant)`: the rules in source order,
\* the first one that does not pass decides.
check_position(variant, s, i) ==
    first_decisive(<<rule_sign_first(variant, i), rule_sign_after_vowel(variant, i),
                     rule_j_after_consonant(variant, i), rule_j_initial_last(variant, i),
                     rule_j_first(variant, i), rule_iy_not_last(variant, i),
                     rule_ye_between(variant, s, i), rule_ye_last(variant, s, i)>>)

\* The for ... else over the positions of one variant, from position i on:
\* "keep" (the else branch: res.append), "break" or "IndexError".
RECURSIVE check_variant(_, _, _)
RECURSIVE check_rest(_, _, _, _)
check_rest(o, variant, s, i) ==
    IF o = "pass" THEN check_variant(variant, s, i + 1) ELSE o

check_variant(variant, s, i) ==
    IF i = Len(variant) THEN "keep"
    ELSE check_rest(check_position(variant, s, i), variant, s, i)

\* The elements of xs at the positions ks.
pick(xs, ks) == [n \in 1..Len(ks) |-> xs[ks[n]]]

\* The loop over the variants, given the answer outs[k] for variant all[k]:
\* an IndexError leaves _list_all, otherwise res is the kept variants in order.
collect(s, all, outs) ==
    IF \E k \in 1..Len(all) : outs[k] = "IndexError"
      THEN [raised |-> "IndexError", splitted |-> s, res |-> <<>>]
    ELSE [raised |-> "none", splitted |-> s,
          res |-> pick(all, SelectSeq([k \in 1..Len(all) |-> k],
                                      LAMBDA k : outs[k] = "keep"))]

\* for variant in product(...): the filter applied to each variant.
filter_variants(s, all) ==
    collect(s, all, [k \in 1..Len(all) |-> check_variant(all[k], s, 0)])

\* _list_all from line 96 on, `splitted` being s: a unit that is no key of
\* eng2rus_dict is a KeyError when the renderings are looked up.
enumerate_candidates(s) ==
    IF \E i \in 1..Len(s) : s[i] \notin DOMAIN eng2rus_dict
      THEN [raised |-> "KeyError", splitted |-> s, res |-> <<>>]
    ELSE filter_variants(s, product([i \in 1..Len(s) |-> eng2rus_dict[s[i]]]))

\* _list_all from line 86 on, the tokens being toks: splitted[-1] of an
\* empty list is an IndexError.
list_all_tokens(toks) ==
    IF toks = <<>>
      THEN [raised |-> "IndexError", splitted |-> toks, res |-> <<>>]
    ELSE enumerate_candidates(insert_eps(toks, possible_eps(toks), 0))

\* _list_all(word): what it raises, and `splitted` and `res` as it leaves them.
list_all(w) == list_all_tokens(eng_split_findall(w))

(***************************************************************************)
(* Input words.  A word is a concatenation of pieces; the pieces are the   *)
(* romanization units (the keys of eng2rus_dict but the placeholder), a    *)
(* character outside the grammar and two upper-case spellings.             *)
(***************************************************************************)
KeyPieces ==
    {<<"a">>, <<"b">>, <<"c", "h">>, <<"d">>, <<"e">>, <<"f">>, <<"g">>, <<"i">>,
     <<"k">>, <<"k", "h">>, <<"l">>, <<"m">>, <<"n">>, <<"o">>, <<"p">>, <<"r">>,
     <<"s">>, <<"s", "h">>, <<"s", "h", "c", "h">>, <<"t">>, <<"t", "s">>, <<"u">>,
     <<"v">>, <<"y">>, <<"y", "a">>, <<"y", "e">>, <<"y", "i">>, <<"y", "o">>,
     <<"y", "u">>, <<"z">>, <<"z", "h">>}

OtherPieces == {<<"-">>, <<"D">>, <<"Y", "a">>}

RECURSIVE Concat(_)
Concat(ps) == IF ps = <<>> THEN <<>> ELSE Head(ps) \o Concat(Tail(ps))

WordsOf(pieces, n) == {Concat(ps) : ps \in UNION {[1..k -> pieces] : k \in 0..n}}

Words == WordsOf(KeyPieces \cup OtherPieces, MaxUnits)

(***************************************************************************)
(* One call of _list_all on a word.                                        *)
(***************************************************************************)
\* _list_all leaves with the record r.
Returned(r) ==
    /\ raised' = r.raised
    /\ splitted' = r.splitted
    /\ res' = r.res

InitListAll ==
    /\ word \in Words
    /\ pc = "start"
    /\ probs = [none |-> TRUE]
    /\ count = <<>>
    /\ splitted = <<>>
    /\ res = <<>>
    /\ pp = <<>>
    /\ ret = <<>>
    /\ raised = "none"
    /\ op = "none"
    /\ nwords = 0
    /\ normalized = FALSE

ListAll ==
    /\ pc = "start"
    /\ Returned(list_all(word))
    /\ op' = "_list_all"
    /\ pc' = "done"
    /\ UNCHANGED <<probs, count, word, pp, ret, nwords, normalized>>

NextListAll == ListAll

SpecListAll == InitListAll /\ [][NextListAll]_vars


(***************************************************************************)
(* Probabilities.  Python holds them as floats; here n/d is the pair       *)
(* <<n, d>> in lowest terms, so that equal quotients are equal values.     *)
(***************************************************************************)
RECURSIVE GCD(_, _)
GCD(x, y) == IF y = 0 THEN x ELSE GCD(y, x % y)

Reduce(q) == <<q[1] \div GCD(q[1], q[2]), q[2] \div GCD(q[1], q[2])>>
RatMul(p, q) == Reduce(<<p[1] * q[1], p[2] * q[2]>>)
RatAdd(p, q) == Reduce(<<p[1] * q[2] + q[1] * p[2], p[2] * q[2]>>)
RatLess(p, q) == p[1] * q[2] < q[1] * p[2]
RatEq(p, q) == p[1] * q[2] = q[1] * p[2]

\* Python's order on str: by code point, a proper prefix first.
RECURSIVE StrLess(_, _)
StrLess(x, y) ==
    IF y = <<>> THEN FALSE
    ELSE IF x = <<>> THEN TRUE
    ELSE IF Head(x) # Head(y) THEN Head(x) < Head(y)
    ELSE StrLess(Tail(x), Tail(y))

\* Python's order on the tuples (prob, restored).
PairLess(x, y) == RatLess(x[1], y[1]) \/ (RatEq(x[1], y[1]) /\ StrLess(x[2], y[2]))

insert_ascending(x, sorted) ==
    SelectSeq(sorted, LAMBDA y : PairLess(y, x)) \o <<x>>
    \o SelectSeq(sorted, LAMBDA y : ~PairLess(y, x))

\* list.sort() without reverse: ascending.
RECURSIVE sort_ascending(_)
sort_ascending(xs) ==
    IF xs = <<>> THEN <<>> ELSE insert_ascending(Head(xs), sort_ascending(Tail(xs)))

insert_descending(x, sorted) ==
    SelectSeq(sorted, LAMBDA y : ~PairLess(y, x)) \o <<x>>
    \o SelectSeq(sorted, LAMBDA y : PairLess(y, x))

\* res.sort(reverse=True): descending in the order of the tuples.
RECURSIVE sort_reverse(_)
sort_reverse(xs) ==
    IF xs = <<>> THEN <<>> ELSE insert_descending(Head(xs), sort_reverse(Tail(xs)))

(***************************************************************************)
(* Scoring: _probability and predict_proba, predict.                       *)
(***************************************************************************)
\* PositionalVariant(eng, emits, after, before) of position i (0-based) of
\* `possibility` over the units s; '^' and '$' mark the ends of the word.
positional_variant(s, possibility, i) ==
    <<s[i + 1], possibility[i + 1],
      IF i > 0 THEN s[i] ELSE "^",
      IF i < Len(s) - 1 THEN s[i + 2] ELSE "$">>

\* _probability(pv): 1 for a unit with one rendering, else self.probs.get(pv, 0).
probability(table, pv) ==
    IF pv[1] \in single_elements THEN <<1, 1>>
    ELSE IF pv \in DOMAIN table THEN table[pv] ELSE <<0, 1>>

\* prob = 1; for each position: prob *= self._probability(pv)
RECURSIVE product_of_factors(_, _, _, _)
product_of_factors(table, s, possibility, i) ==
    IF i = Len(s) THEN <<1, 1>>
    ELSE RatMul(probability(table, positional_variant(s, possibility, i)),
                product_of_factors(table, s, possibility, i + 1))

\* prob = 1/L when self.probs is None, else the product of the factors.
candidate_prob(pr, s, possibility) ==
    IF pr.none THEN <<1, Len(s)>>
    ELSE product_of_factors(pr.table, s, possibility, 0)

\* predict_proba from line 156 on, _list_all having left with r: the pairs
\* (prob, restored) with prob > 0, sorted.  An exception of _list_all is
\* not caught.
score_and_sort(pr, r) ==
    IF r.raised # "none"
      THEN [raised |-> r.raised, splitted |-> r.splitted, res |-> r.res, pp |-> <<>>]
    ELSE [raised |-> "none", splitted |-> r.splitted, res |-> r.res,
          pp |-> sort_reverse(
                   SelectSeq([k \in 1..Len(r.res) |->
                                 <<candidate_prob(pr, r.splitted, r.res[k]),
                                   Concat(r.res[k])>>],
                             LAMBDA x : x[1][1] > 0))]

\* predict_proba(word) with self.probs = pr: what it raises, the locals
\* splitted and all_possibilities, and the list it returns.
predict_proba(pr, w) == score_and_sort(pr, list_all(w))

\* return [p[1] for p in pp]
strip_probabilities(pairs) == [k \in 1..Len(pairs) |-> pairs[k][2]]

(***************************************************************************)
(* fit.  translate is the forward transliteration of the iuliia package    *)
(* (schema WIKIPEDIA), outside this repository; it is given by its values  *)
(* on the training vocabulary: mel, mel, yel, yeshte and the empty word.   *)
(***************************************************************************)
Mel == <<Cyr.m, Cyr.e, Cyr.l>>
MelSoft == <<Cyr.m, Cyr.e, Cyr.l, Cyr.soft>>
YelSoft == <<Cyr.e, Cyr.l, Cyr.soft>>
Yeshte == <<Cyr.e, Cyr.sh, Cyr.soft, Cyr.t, Cyr.e>>
Empty == <<>>

TrainWords == {Mel, MelSoft, YelSoft, Yeshte, Empty}

translate(source) ==
    CASE source = Mel -> <<"m", "e", "l">>
      [] source = MelSoft -> <<"m", "e", "l">>
      [] source = YelSoft -> <<"y", "e", "l">>
      [] source = Yeshte -> <<"y", "e", "s", "h", "t", "e">>
      [] source = Empty -> <<>>

counted_every_unit(e) == TRUE

\* `if e in self.single_elements: continue`: the units fit counts.
counted(e) == e \notin single_elements

\* count[k] += 1 on a defaultdict(int).
increment(d, k) ==
    IF k \in DOMAIN d THEN [d EXCEPT ![k] = d[k] + 1] ELSE (k :> 1) @@ d

\* self.probs[pv] += 1 on a defaultdict(int); the number n is held as <<n, 1>>.
increment_probs(d, k) ==
    IF k \in DOMAIN d THEN [d EXCEPT ![k] = <<d[k][1] + 1, 1>>] ELSE (k :> <<1, 1>>) @@ d

\* self.probs[pv] += 1; count[(pv.after, pv.eng, pv.before)] += 1, unless
\* the unit of pv is skipped.  The table holds plain counts until the
\* normalization.
count_variant(st, pv) ==
    IF counted(pv[1])
      THEN [table |-> increment_probs(st.table, pv),
            count |-> increment(st.count, <<pv[3], pv[1], pv[4]>>)]
    ELSE st

\* The loop over the positions of the matching possibility, from position i on.
RECURSIVE count_positions(_, _, _, _)
count_positions(st, s, possibility, i) ==
    IF i = Len(s) THEN st
    ELSE count_positions(count_variant(st, positional_variant(s, possibility, i)),
                         s, possibility, i + 1)

\* The index of the first possibility of r.res whose join is source, 0 if none.
RECURSIVE first_match(_, _, _)
first_match(possibilities, source, k) ==
    IF k > Len(possibilities) THEN 0
    ELSE IF Concat(possibilities[k]) = source THEN k
    ELSE first_match(possibilities, source, k + 1)

\* The matching possibility, at index k, is counted; k = 0: the word is skipped.
count_match(st, r, k) ==
    IF k = 0 THEN st ELSE count_positions(st, r.splitted, r.res[k], 0)

\* The body of `for word in words` once _list_all has returned r.
fit_word(st, source, r) == count_match(st, r, first_match(r.res, source, 1))

\* self.probs[k] = v / count[(pv.after, pv.eng, pv.before)]
normalize(table, cnt) ==
    [k \in DOMAIN table |-> Reduce(<<table[k][1], cnt[<<k[3], k[1], k[4]>>]>>)]

(***************************************************************************)
(* The object: one BackTransliterator, one query word, and the calls       *)
(* predict_proba, predict and fit (the loop of fit one word at a time).    *)
(* save_probs and load_probs exchange self.probs with a pickle file and    *)
(* are not modelled.                                                       *)
(***************************************************************************)
QueryWords ==
    {<<>>, <<"-">>, <<"d", "o", "m">>, <<"D", "o", "m">>, <<"d", "-", "m">>,
     <<"m", "e", "l">>, <<"y", "e", "l">>, <<"e", "l">>, <<"m", "o", "l">>,
     <<"y", "a">>, <<"l", "y", "e">>, <<"t", "s", "y", "a">>}

Init ==
    /\ word \in QueryWords
    /\ pc = "idle"
    /\ probs = [none |-> TRUE]
    /\ count = <<>>
    /\ splitted = <<>>
    /\ res = <<>>
    /\ pp = <<>>
    /\ ret = <<>>
    /\ raised = "none"
    /\ op = "none"
    /\ nwords = 0
    /\ normalized = FALSE

\* predict_proba leaves with the record r.
Predicted(r) ==
    /\ raised' = r.raised
    /\ splitted' = r.splitted
    /\ res' = r.res
    /\ pp' = r.pp

PredictProba ==
    /\ pc = "idle"
    /\ Predicted(predict_proba(probs, word))
    /\ ret' = pp'
    /\ op' = "predict_proba"
    /\ UNCHANGED <<probs, count, pc, word, nwords, normalized>>

Predict ==
    /\ pc = "idle"
    /\ Predicted(predict_proba(probs, word))
    /\ ret' = strip_probabilities(pp')
    /\ op' = "predict"
    /\ UNCHANGED <<probs, count, pc, word, nwords, normalized>>

\* fit is entered: self.probs = defaultdict(int); count = defaultdict(int).
FitBegin ==
    /\ pc = "idle"
    /\ pc' = "fit"
    /\ probs' = [none |-> FALSE, table |-> <<>>]
    /\ count' = <<>>
    /\ nwords' = 0
    /\ normalized' = FALSE
    /\ op' = "fit"
    /\ raised' = "none"
    /\ splitted' = <<>>
    /\ res' = <<>>
    /\ pp' = <<>>
    /\ ret' = <<>>
    /\ UNCHANGED word

\* The iteration leaves with the counts st.
Counted(st) ==
    /\ probs' = [none |-> FALSE, table |-> st.table]
    /\ count' = st.count
    /\ nwords' = nwords + 1
    /\ UNCHANGED <<raised, pc>>

\* _list_all raised in fit: the exception leaves fit at once, self.probs
\* keeps the counts made so far, not normalized.
Aborted(r) ==
    /\ raised' = r.raised
    /\ pc' = "idle"
    /\ nwords' = 0
    /\ count' = <<>>
    /\ UNCHANGED probs

FitStep(source, r) ==
    IF r.raised # "none" THEN Aborted(r)
    ELSE Counted(fit_word([table |-> probs.table, count |-> count], source, r))

\* One iteration of `for word in words`.
FitWord(source) ==
    /\ pc = "fit"
    /\ nwords < MaxCorpus
    /\ FitStep(source, list_all(translate(source)))
    /\ UNCHANGED <<word, splitted, res, pp, ret, op, normalized>>

\* The iterable is exhausted: the normalization loop, and fit returns None.
FitNormalize ==
    /\ pc = "fit"
    /\ probs' = [none |-> FALSE, table |-> normalize(probs.table, count)]
    /\ normalized' = TRUE
    /\ pc' = "idle"
    /\ nwords' = 0
    /\ count' = <<>>
    /\ UNCHANGED <<word, splitted, res, pp, ret, raised, op>>

Next ==
    \/ PredictProba
    \/ Predict
    \/ FitBegin
    \/ \E source \in TrainWords : FitWord(source)
    \/ FitNormalize

Spec == Init /\ [][Next]_vars

(***************************************************************************)
(* Properties of _list_all, checked under SpecListAll.                     *)
(***************************************************************************)
Called == op = "_list_all"

NoEps(s) == SelectSeq(s, LAMBDA u : u # "eps")

RECURSIVE StrCat(_)
StrCat(ts) == IF ts = <<>> THEN "" ELSE Head(ts) \o StrCat(Tail(ts))

LowerWord(w) == [i \in 1..Len(w) |-> Lower(w[i])]

\* w is a concatenation of lower-case romanization units, from position i on.
RECURSIVE KeyConcatFrom(_, _)
KeyConcatFrom(w, i) ==
    \/ i > Len(w)
    \/ \E n \in 1..4 :
          /\ i + n - 1 <= Len(w)
          /\ SubSeq(w, i, i + n - 1) \in KeyPieces
          /\ KeyConcatFrom(w, i + n)

EndsIn(r, S) == r # <<>> /\ r[Len(r)] \in S
StartsIn(r, S) == r # <<>> /\ r[1] \in S

\* The six orthographic constraints, as stated for a candidate v over units s.
NoLeadingSign(v) == ~StartsIn(v[1], {Cyr.hard, Cyr.soft})
NoSignAfterVowel(v) ==
    \A i \in 2..Len(v) :
        ~(StartsIn(v[i], {Cyr.soft, Cyr.hard, Cyr.yy}) /\ EndsIn(v[i - 1], vowels))
NoShortIAfterConsonantNorFirst(v) ==
    /\ v[1] # <<Cyr.j>>
    /\ \A i \in 2..Len(v) : ~(v[i] = <<Cyr.j>> /\ EndsIn(v[i - 1], consonants))
NoIotatedLastAfterConsonant(v) ==
    Len(v) >= 2 => ~(StartsIn(v[Len(v)], {Cyr.j}) /\ EndsIn(v[Len(v) - 1], consonants))
AdjectiveEndingOnlyLast(v) ==
    \A i \in 1..(Len(v) - 1) : v[i] \notin {<<Cyr.i, Cyr.j>>, <<Cyr.yy, Cyr.j>>}
PlainYeNotAfterConsonant(v, s) ==
    \A i \in 1..Len(v) :
        (s[i] = "ye" /\ v[i] = <<Cyr.e>>) =>
            /\ ~(1 < i /\ i < Len(v) /\ EndsIn(v[i - 1], consonants)
                 /\ StartsIn(v[i + 1], consonants))
            /\ ~(i = Len(v) /\ i > 1 /\ EndsIn(v[i - 1], consonants))

Sound(v, s) ==
    /\ Len(v) = Len(s)
    /\ NoLeadingSign(v)
    /\ NoSignAfterVowel(v)
    /\ NoShortIAfterConsonantNorFirst(v)
    /\ NoIotatedLastAfterConsonant(v)
    /\ AdjectiveEndingOnlyLast(v)
    /\ PlainYeNotAfterConsonant(v, s)

C6_TokenizerTotal ==
    (Called /\ KeyConcatFrom(word, 1)) =>
        LET toks == NoEps(splitted) IN
        /\ StrCat(toks) = Tok(word)
        /\ \A i \in 1..Len(toks) : toks[i] \in DOMAIN eng2rus_dict \ {"eps"}

\* C6's case: `t` then `sh`, which the lookahead of `ts(?!h)` keeps apart.
C6_Witness ==
    /\ Called
    /\ word = <<"t", "s", "h">>
    /\ splitted = <<"t", "eps", "sh", "eps">>

\* What C9 states of the sequence after insertion: each unit of t in order,
\* followed by one placeholder exactly when it and its successor are in
\* A x B, or when it is the last unit and is in C.
RECURSIVE WithPlaceholders(_, _)
WithPlaceholders(t, i) ==
    IF i > Len(t) THEN <<>>
    ELSE <<t[i]>>
         \o (IF \/ (i < Len(t) /\ t[i] \in a_units /\ t[i + 1] \in b_units)
                \/ (i = Len(t) /\ t[i] \in c_units)
               THEN <<"eps">> ELSE <<>>)
         \o WithPlaceholders(t, i + 1)

\* C9: after insertion one placeholder stands between every adjacent pair
\* in A x B and after a last unit in C, nowhere else, and the units are
\* those of the token sequence, in order.
C9_InsertionExact ==
    LET t == eng_split_findall(word) IN
    (Called /\ t # <<>>) =>
        /\ splitted = WithPlaceholders(t, 1)
        /\ NoEps(splitted) = t

\* C9's case: two insertions into one sequence.
C9_Witness ==
    /\ Called
    /\ word = <<"d", "d">>
    /\ splitted = <<"d", "eps", "d", "eps">>

C7_CaseInsensitive ==
    Called =>
        LET r == list_all(LowerWord(word)) IN
        /\ raised = r.raised
        /\ splitted = r.splitted
        /\ res = r.res


(***************************************************************************)
(* Properties of predict_proba, predict and fit, checked under Spec.       *)
(***************************************************************************)
Answered == op \in {"predict_proba", "predict"} /\ raised = "none"

Dom == <<"d", "o", "m">>
DomRestored == <<Cyr.d, Cyr.o, Cyr.m>>
DomSoftRestored == <<Cyr.d, Cyr.o, Cyr.m, Cyr.soft>>

\* The list of pairs is in descending order of probability.
DescendingProbability(pairs) ==
    \A i \in 1..(Len(pairs) - 1) : ~RatLess(pairs[i][1], pairs[i + 1][1])

\* What predict and predict_proba hand back of the sorted list.
ReturnsSortedList ==
    /\ op = "predict_proba" => ret = pp
    /\ op = "predict" =>
          /\ Len(ret) = Len(pp)
          /\ \A i \in 1..Len(pp) : ret[i] = pp[i][2]

\* C2 as stated: descending by probability, and among equal probabilities
\* the restorations ascending.
C2_TiesAscending ==
    Answered =>
        /\ DescendingProbability(pp)
        /\ \A i \in 1..(Len(pp) - 1) :
              RatEq(pp[i][1], pp[i + 1][1]) => ~StrLess(pp[i + 1][2], pp[i][2])
        /\ ReturnsSortedList

\* C2 amended: descending by probability, and among equal probabilities the
\* restorations descending; predict returns the same strings in that order.
C2_TiesDescending ==
    Answered =>
        /\ DescendingProbability(pp)
        /\ \A i \in 1..(Len(pp) - 1) :
              RatEq(pp[i][1], pp[i + 1][1]) => ~StrLess(pp[i][2], pp[i + 1][2])
        /\ ReturnsSortedList

\* C2's case: predict answered with four restorations of equal probability.
C2_Witness ==
    /\ op = "predict" /\ raised = "none"
    /\ word = <<"m", "e", "l">>
    /\ Len(pp) = 4
    /\ \A i \in 1..4 : RatEq(pp[i][1], <<1, 4>>)
    /\ ret = << <<Cyr.m, Cyr.eh, Cyr.l, Cyr.soft>>, <<Cyr.m, Cyr.eh, Cyr.l>>,
                <<Cyr.m, Cyr.e, Cyr.l, Cyr.soft>>, <<Cyr.m, Cyr.e, Cyr.l>> >>

UniformDom == op = "predict_proba" /\ probs.none /\ word = Dom

C4_NoUnitsReturnsEmpty ==
    (op \in {"predict_proba", "predict"} /\ eng_split_findall(word) = <<>>) =>
        /\ raised = "none"
        /\ ret = <<>>

Context(k) == <<k[3], k[1], k[4]>>
SameContext(table, ctx) == {k \in DOMAIN table : Context(k) = ctx}

RECURSIVE SumOver(_, _)
SumOver(table, ks) ==
    IF ks = {} THEN <<0, 1>>
    ELSE LET k == CHOOSE x \in ks : TRUE
         IN RatAdd(table[k], SumOver(table, ks \ {k}))

FitCompleted == pc = "idle" /\ normalized

\* C5: after fit has completed, the stored values of every context sum to
\* 1, every stored value is in (0, 1] and no unit with a single rendering
\* is stored; while fit counts, the counts of the variants of a context sum
\* to the total of that context.
C5_Normalized ==
    /\ FitCompleted =>
          \A k \in DOMAIN probs.table :
              /\ k[1] \notin single_elements
              /\ probs.table[k][1] > 0
              /\ probs.table[k][1] <= probs.table[k][2]
              /\ RatEq(SumOver(probs.table, SameContext(probs.table, Context(k))), <<1, 1>>)
    /\ pc = "fit" =>
          /\ \A k \in DOMAIN probs.table :
                k[1] \notin single_elements /\ Context(k) \in DOMAIN count
          /\ \A ctx \in DOMAIN count :
                RatEq(SumOver(probs.table, SameContext(probs.table, ctx)), <<count[ctx], 1>>)

\* C5's case: a completed fit saw two renderings of the placeholder in one
\* context, once and twice.
C5_Witness ==
    /\ FitCompleted
    /\ <<"eps", <<>>, "l", "$">> \in DOMAIN probs.table
    /\ <<"eps", <<Cyr.soft>>, "l", "$">> \in DOMAIN probs.table
    /\ probs.table[<<"eps", <<>>, "l", "$">>] = <<1, 3>>
    /\ probs.table[<<"eps", <<Cyr.soft>>, "l", "$">>] = <<2, 3>>

\* The factor of position i (1-based) of candidate v over the units s, as
\* C8 states it.
Variant(s, v, i) ==
    <<s[i], v[i], IF i = 1 THEN "^" ELSE s[i - 1], IF i = Len(s) THEN "$" ELSE s[i + 1]>>
Factor(table, s, v, i) ==
    IF Len(eng2rus_dict[s[i]]) = 1 THEN <<1, 1>>
    ELSE IF Variant(s, v, i) \in DOMAIN table THEN table[Variant(s, v, i)]
    ELSE <<0, 1>>

RECURSIVE FactorProduct(_, _, _, _)
FactorProduct(table, s, v, i) ==
    IF i > Len(s) THEN <<1, 1>>
    ELSE RatMul(Factor(table, s, v, i), FactorProduct(table, s, v, i + 1))

AllStored(table, s, v) ==
    \A i \in 1..Len(s) :
        Len(eng2rus_dict[s[i]]) = 1 \/ Variant(s, v, i) \in DOMAIN table

TrainedAnswer == op = "predict_proba" /\ raised = "none" /\ ~probs.none

\* The returned pairs are the candidates whose positions with several
\* renderings are all stored, each with the product of its factors.
ScoredByProduct ==
    /\ {pp[i] : i \in 1..Len(pp)} =
           {<<FactorProduct(probs.table, splitted, res[k], 1), Concat(res[k])>> :
               k \in {j \in 1..Len(res) : AllStored(probs.table, splitted, res[j])}}
    /\ Len(pp) = Cardinality({j \in 1..Len(res) : AllStored(probs.table, splitted, res[j])})

\* C8: with a table, a candidate's probability is the product of its
\* factors, the candidates returned are those with every position stored,
\* and every returned probability is in (0, 1].
C8_TrainedScoring ==
    TrainedAnswer =>
        /\ ScoredByProduct
        /\ \A i \in 1..Len(pp) : pp[i][1][1] > 0 /\ pp[i][1][1] <= pp[i][1][2]

=============================================================================
